---- MODULE Spec2Model ----
(***************************************************************************)
(* Model of pineko's compatibility checks (src/src/pineko/check.py) and of *)
(* sv_scheme and evolve_grid (src/src/pineko/evolve.py).                   *)
(*                                                                         *)
(* The functions are pure; the state machine is a driver that, from the   *)
(* idle state, calls one of them on inputs drawn from bounded sets and     *)
(* records the outcome: a normal return or the exception raised.           *)
(*                                                                         *)
(* Floating point values are fixed-point integers in units of 1e-8, the    *)
(* value of atol: 1.0 is Unit = 10^8.                                      *)
(***************************************************************************)
EXTENDS Integers, Sequences, FiniteSets, TLC

VARIABLES
    op,     \* the function the driver called last, or "idle"
    args,   \* the arguments of that call
    ret     \* the outcome of that call

vars == <<op, args, ret>>

-----------------------------------------------------------------------------
(* Bounds of the model *)

\* longest needle handed to in1d directly
MaxNeedle == 3
\* longest haystack handed to in1d directly
MaxHay == 2
\* longest operator mu2grid (before np.unique)
MaxOpLen == 2
\* most scale values of the coefficient grid
MaxGridLen == 3
\* most orders of a coefficient grid
MaxOrders == 3
\* largest max_as requested
MaxAs == 3
\* largest max_al requested
MaxAl == 1

-----------------------------------------------------------------------------
(* Values *)

\* in1d(a, b, rtol=1e-05, atol=1e-08): atol in units of 1e-8, and 1/rtol
Atol == 1
RtolInv == 100000

\* 1.0 in units of 1e-8
Unit == 1000 * RtolInv

None == "None"

Return(v) == [kind |-> "return", value |-> v]
Raise(e, m) == [kind |-> "raise", value |-> <<e, m>>]

Abs(x) == IF x < 0 THEN -x ELSE x

Range(s) == {s[i] : i \in 1..Len(s)}

Max(S) == CHOOSE x \in S : \A y \in S : y <= x
Min(S) == CHOOSE x \in S : \A y \in S : x <= y

\* all sequences over S of length lo..hi
SeqsOf(S, lo, hi) == UNION {[1..n -> S] : n \in lo..hi}

\* the non-decreasing ones
SortedSeqsOf(S, lo, hi) ==
    {s \in SeqsOf(S, lo, hi) : \A i \in 1..Len(s), j \in 1..Len(s) : i < j => s[i] <= s[j]}

\* the strictly increasing ones: a kinematic grid holds distinct, monotonic values
GridsOf(S, lo, hi) ==
    {s \in SeqsOf(S, lo, hi) : \A i \in 1..Len(s), j \in 1..Len(s) : i < j => s[i] < s[j]}

-----------------------------------------------------------------------------
(* numpy *)

\* np.isclose(x, y, rtol, atol): |x - y| <= atol + rtol * |y|.
\* In units of atol the left side is an integer, so rtol * |y| may be floored.
IsClose(x, y) == Abs(x - y) <= Atol + (Abs(y) \div RtolInv)

\* np.searchsorted(s, v, side="left"): binary search for the first index
\* (0-based) whose element is not below v
RECURSIVE BinarySearchLeft(_, _, _, _)
BinarySearchLeft(s, v, lo, hi) ==
    IF lo >= hi THEN lo
    ELSE LET mid == lo + ((hi - lo) \div 2)
         IN IF s[mid + 1] < v
            THEN BinarySearchLeft(s, v, mid + 1, hi)
            ELSE BinarySearchLeft(s, v, lo, mid)

SearchSorted(s, v) == BinarySearchLeft(s, v, 0, Len(s))

\* np.unique: the sorted distinct values
RECURSIVE SortedOf(_)
SortedOf(S) ==
    IF S = {} THEN <<>>
    ELSE LET m == Min(S) IN <<m>> \o SortedOf(S \ {m})

Unique(s) == SortedOf(Range(s))

\* np.all
NpAll(mask) == \A i \in 1..Len(mask) : mask[i]

-----------------------------------------------------------------------------
(* check.in1d *)

\* The general case testing a[ss] only, without its right neighbour.
In1dLeftNeighbour(a, b) ==
    [i \in 1..Len(b) |->
        LET ss == SearchSorted(SubSeq(a, 2, Len(a) - 1), b[i])
        IN IsClose(a[ss + 1], b[i])]

\* The general case reads a[ss] and a[ss + 1] (0-based) with
\* ss = searchsorted(a[1:-1], b[i]).
In1dGeneral(a, b) ==
    [i \in 1..Len(b) |->
        LET ss == SearchSorted(SubSeq(a, 2, Len(a) - 1), b[i])
        IN IsClose(a[ss + 1], b[i]) \/ IsClose(a[ss + 2], b[i])]

\* A needle of one element: [True] at the first element of b close to it, else
\* [False]. Here a[0] is the reference value of np.isclose.
In1dSingle(a, b) ==
    IF \E i \in 1..Len(b) : IsClose(b[i], a[1]) THEN <<TRUE>> ELSE <<FALSE>>

In1d(a, b) == IF Len(a) = 1 THEN In1dSingle(a, b) ELSE In1dGeneral(a, b)

-----------------------------------------------------------------------------
(* check.check_grid_and_eko_compatible *)

Q2Error == "Q2 grid in pineappl grid and eko operator are NOT compatible!"
XError == "x grid in pineappl grid and eko operator are NOT compatible!"

\* xif * xif * np.array(muf2_grid)
Scaled(xif, muf2_grid) == [i \in 1..Len(muf2_grid) |-> xif * xif * muf2_grid[i]]

\* The check with the factor xif * xif left out of the required scales.
CheckWithoutXif(mu2grid, targetgrid, x_grid, muf2_grid, xif) ==
    IF ~NpAll(In1d(Unique(mu2grid), muf2_grid))
    THEN Raise("ValueError", Q2Error)
    ELSE IF ~NpAll(In1d(Unique(targetgrid), x_grid))
    THEN Raise("ValueError", XError)
    ELSE Return(None)

\* The check with the x grid tested before the Q2 grid.
CheckXFirst(mu2grid, targetgrid, x_grid, muf2_grid, xif) ==
    IF ~NpAll(In1d(Unique(targetgrid), x_grid))
    THEN Raise("ValueError", XError)
    ELSE IF ~NpAll(In1d(Unique(mu2grid), Scaled(xif, muf2_grid)))
    THEN Raise("ValueError", Q2Error)
    ELSE Return(None)

\* mu2grid and targetgrid are the operator's grids; x_grid and muf2_grid are
\* evol_info.x1 and evol_info.fac1 of the coefficient grid.
CheckGridAndEkoCompatible(mu2grid, targetgrid, x_grid, muf2_grid, xif) ==
    IF ~NpAll(In1d(Unique(mu2grid), Scaled(xif, muf2_grid)))
    THEN Raise("ValueError", Q2Error)
    ELSE IF ~NpAll(In1d(Unique(targetgrid), x_grid))
    THEN Raise("ValueError", XError)
    ELSE Return(None)

-----------------------------------------------------------------------------
(* Orders: (as_power, al_power, ren_marker, fac_marker) *)

\* Scale.REN and Scale.FACT: the (Python, negative) index of the marker
ScaleIndex(sv_type) == IF sv_type = "REN" THEN -2 ELSE -1

\* Python's t[i] for a 0-based or negative index
PyIndex(t, i) == IF i < 0 THEN t[Len(t) + i + 1] ELSE t[i + 1]

\* pineappl.grid.Order.create_mask, as section 4.2 of the specification states
\* it: one entry per order, true iff as_power <= max_as and al_power <= max_al
CreateMask(orders, max_as, max_al) ==
    [i \in 1..Len(orders) |-> orders[i][1] <= max_as /\ orders[i][2] <= max_al]

\* order_array[order_mask]: the rows whose mask entry is true, in their order
RECURSIVE MaskSelect(_, _)
MaskSelect(arr, mask) ==
    IF arr = <<>> THEN <<>>
    ELSE (IF Head(mask) THEN <<Head(arr)>> ELSE <<>>) \o MaskSelect(Tail(arr), Tail(mask))

Reverse(s) == [i \in 1..Len(s) |-> s[Len(s) + 1 - i]]

\* get_order_list with the selected rows in reverse order
GetOrderListReversed(orders, max_as, max_al) ==
    Reverse(MaskSelect(orders, CreateMask(orders, max_as, max_al)))

GetOrderList(orders, max_as, max_al) ==
    MaskSelect(orders, CreateMask(orders, max_as, max_al))

\* pure_qcd_orders, for a non-empty order_list (min() raises on an empty one)
PureQcdOrders(order_list) ==
    LET min_al == Min({order_list[i][2] : i \in 1..Len(order_list)})
    IN SelectSeq(order_list, LAMBDA order : order[2] = min_al)

\* max(generator, default=d)
MaxOr(S, d) == IF S = {} THEN d ELSE Max(S)

EmptyMin == "min() arg is an empty sequence"
EmptyMax == "max() arg is an empty sequence"

\* ord[0] for ord in as_orders
AsPowers(as_orders) == {as_orders[i][1] : i \in 1..Len(as_orders)}

\* ord[0] for ord in as_orders if ord[index] == 0
CentralAsPowers(as_orders, index) ==
    {as_orders[i][1] : i \in {j \in 1..Len(as_orders) : PyIndex(as_orders[j], index) = 0}}

\* ord[0] for ord in as_orders if ord[index] != 0
VariedAsPowers(as_orders, index) ==
    {as_orders[i][1] : i \in {j \in 1..Len(as_orders) : PyIndex(as_orders[j], index) # 0}}

\* contains_sv with three of its parts switched: lo_branch keeps the
\* leading-order branch, ren_only keeps the test for Scale.REN in the NLO
\* branch, empty_default answers an empty order list instead of raising
ContainsSvVariant(orders, max_as, max_al, sv_type, lo_branch, ren_only, empty_default) ==
    LET index_to_check == ScaleIndex(sv_type)
        order_list == GetOrderList(orders, max_as, max_al)
    IN IF order_list = <<>>
       THEN (IF empty_default THEN Return(<<"BOTH", 0>>) ELSE Raise("ValueError", EmptyMin))
       ELSE
       LET as_orders == PureQcdOrders(order_list)
           max_as_effective == Max(AsPowers(as_orders))
           min_as == Min(AsPowers(as_orders))
           cen == CentralAsPowers(as_orders, index_to_check)
           max_as_effective_sv == MaxOr(VariedAsPowers(as_orders, index_to_check), 0)
       IN IF cen = {} THEN Raise("ValueError", EmptyMax)
          ELSE Return(<<
                IF Max(cen) = max_as_effective
                THEN IF max_as_effective_sv = max_as_effective THEN "BOTH"
                     ELSE IF lo_branch /\ max_as_effective = min_as THEN "BOTH"
                     ELSE IF max_as_effective = 1 /\ (ren_only => sv_type = "REN") /\ min_as = 0
                     THEN "BOTH"
                     ELSE "CENTRAL"
                ELSE "SCVAR",
                max_as_effective - min_as + 1>>)

\* contains_sv with the NLO branch taken for both kinds of scale
ContainsSvSymmetric(orders, max_as, max_al, sv_type) ==
    ContainsSvVariant(orders, max_as, max_al, sv_type, TRUE, FALSE, FALSE)

\* contains_sv without the leading-order branch
ContainsSvNoLeadingOrder(orders, max_as, max_al, sv_type) ==
    ContainsSvVariant(orders, max_as, max_al, sv_type, FALSE, TRUE, FALSE)

\* contains_sv reading the factorization marker whatever the kind asked for
ContainsSvFactIndex(orders, max_as, max_al, sv_type) ==
    ContainsSvVariant(orders, max_as, max_al, "FACT", TRUE, TRUE, FALSE)

\* contains_sv with the effective order left 0-based
ContainsSvZeroBased(orders, max_as, max_al, sv_type) ==
    LET r == ContainsSvVariant(orders, max_as, max_al, sv_type, TRUE, TRUE, FALSE)
    IN IF r.kind = "return" THEN Return(<<r.value[1], r.value[2] - 1>>) ELSE r

\* contains_sv answering an empty order list instead of failing
ContainsSvEmptyDefault(orders, max_as, max_al, sv_type) ==
    ContainsSvVariant(orders, max_as, max_al, sv_type, TRUE, TRUE, TRUE)

\* contains_sv with max(..., default=0) for the central orders as well
ContainsSvCentralDefault(orders, max_as, max_al, sv_type) ==
    LET index_to_check == ScaleIndex(sv_type)
        order_list == GetOrderList(orders, max_as, max_al)
    IN IF order_list = <<>> THEN Raise("ValueError", EmptyMin)
       ELSE
       LET as_orders == PureQcdOrders(order_list)
           max_as_effective == Max(AsPowers(as_orders))
           min_as == Min(AsPowers(as_orders))
           max_as_effective_cen == MaxOr(CentralAsPowers(as_orders, index_to_check), 0)
           max_as_effective_sv == MaxOr(VariedAsPowers(as_orders, index_to_check), 0)
       IN Return(<<
             IF max_as_effective_cen = max_as_effective
             THEN IF max_as_effective_sv = max_as_effective THEN "BOTH"
                  ELSE IF max_as_effective = min_as THEN "BOTH"
                  ELSE IF max_as_effective = 1 /\ sv_type = "REN" /\ min_as = 0
                  THEN "BOTH"
                  ELSE "CENTRAL"
             ELSE "SCVAR",
             max_as_effective - min_as + 1>>)

\* contains_sv. min() in pure_qcd_orders raises ValueError on an empty
\* order_list, and max() without a default raises ValueError when no order of
\* the tower is central.
ContainsSv(orders, max_as, max_al, sv_type) ==
    LET index_to_check == ScaleIndex(sv_type)
        order_list == GetOrderList(orders, max_as, max_al)
    IN IF order_list = <<>> THEN Raise("ValueError", EmptyMin)
       ELSE
       LET as_orders == PureQcdOrders(order_list)
           max_as_effective == Max(AsPowers(as_orders))
           min_as == Min(AsPowers(as_orders))
           cen == CentralAsPowers(as_orders, index_to_check)
       IN IF cen = {} THEN Raise("ValueError", EmptyMax)
          ELSE
          LET max_as_effective_cen == Max(cen)
              max_as_effective_sv ==
                  MaxOr(VariedAsPowers(as_orders, index_to_check), 0)
              checkres ==
                  IF max_as_effective_cen = max_as_effective
                  THEN IF max_as_effective_sv = max_as_effective THEN "BOTH"
                       ELSE IF max_as_effective = min_as THEN "BOTH"
                       ELSE IF max_as_effective = 1 /\ sv_type = "REN" /\ min_as = 0
                       THEN "BOTH"
                       ELSE "CENTRAL"
                  ELSE "SCVAR"
          IN Return(<<checkres, max_as_effective - min_as + 1>>)

-----------------------------------------------------------------------------
(* evolve.sv_scheme *)

\* {a.value for a in ScaleVariationsMethod}
ModsvList == {"exponentiated", "expanded"}

\* sv_scheme returning ModSV without looking it up in modsv_list
SvSchemeUnchecked(xif, modsv) ==
    IF IsClose(xif, Unit)
    THEN (IF modsv \in ModsvList
          THEN Raise("ValueError", "ModSv is not None but xif is 1.0")
          ELSE Return(None))
    ELSE Return(modsv)

\* xif = tcard["XIF"], modsv = tcard["ModSV"]
SvScheme(xif, modsv) ==
    IF IsClose(xif, Unit)
    THEN (IF modsv \in ModsvList
          THEN Raise("ValueError", "ModSv is not None but xif is 1.0")
          ELSE Return(None))
    ELSE IF modsv \notin ModsvList
    THEN Return(None)
    ELSE Return(modsv)

-----------------------------------------------------------------------------
(* evolve.evolve_grid *)

\* A grid is [orders, x1, fac1, integrability]; an operator is
\* [mu2grid, targetgrid, inputpids, scvar_method].

\* the parameters of check_grid_and_eko_compatible; none has a default
CheckParameters == <<"pineappl_grid", "operators", "xif", "max_as", "max_al">>

MissingArguments ==
    "check_grid_and_eko_compatible() missing 2 required positional arguments: 'max_as' and 'max_al'"
BasisError == "The EKO is neither in flavor nor in evolution basis."

\* operators.rotations.inputpids: br.flavor_basis_pids,
\* br.rotate_flavor_to_evolution, or anything else
FlavorBasis == "flavor"
EvolutionBasis == "evolution"

\* grid.raw.evolve_info(order_mask): the x values and factorization scales of
\* the grid
EvolveInfo(grid, order_mask) == [x1 |-> grid.x1, fac1 |-> grid.fac1]

\* Python's call of check_grid_and_eko_compatible with the positional
\* arguments `passed`: a parameter left without an argument is a TypeError,
\* raised before the body runs
CheckCall(passed) ==
    IF Len(passed) # Len(CheckParameters)
    THEN Raise("TypeError", MissingArguments)
    ELSE LET pineappl_grid == passed[1]
             operators == passed[2]
             evol_info == EvolveInfo(pineappl_grid,
                                     CreateMask(pineappl_grid.orders, passed[4], passed[5]))
         IN CheckGridAndEkoCompatible(operators.mu2grid, operators.targetgrid,
                                      evol_info.x1, evol_info.fac1, passed[3])

\* one external call of a run: its name, what it was given, whether it returned
ExternalCall(name, given, ok) == [name |-> name, given |-> given, ok |-> ok]

\* how a run ended: its result, the external calls it made in order, and the
\* files it wrote
Run(result, calls, files) ==
    [kind |-> result.kind, value |-> result.value, calls |-> calls, files |-> files]

\* the calls of evolve_grid up to and including the compatibility check
CallsToCheck(order_mask, x_grid, compatible) ==
    << ExternalCall("create_mask", <<>>, TRUE),
       ExternalCall("evolve_info", order_mask, TRUE),
       ExternalCall("xgrid_reshape", x_grid, TRUE),
       ExternalCall("check_grid_and_eko_compatible", <<>>, compatible.kind = "return") >>

\* the calls of evolve_grid after the basis was accepted
CallsFromFold(order_mask, xir, xif, comparison_pdf) ==
    << ExternalCall("a_s", <<xir, xif>>, TRUE),
       ExternalCall("evolve", [order_mask |-> order_mask, xi |-> <<xir, xif>>], TRUE),
       ExternalCall("optimize", <<>>, TRUE) >>
    \o (IF comparison_pdf # None
        THEN <<ExternalCall("compare", comparison_pdf, TRUE)>>
        ELSE <<>>)
    \o <<ExternalCall("write_lz4", <<>>, TRUE)>>

\* evolve_grid going on to the basis validation and the fold whatever the
\* compatibility check did
EvolveGridUnchecked(grid, operators, fktable_path, max_as, max_al, xir, xif, comparison_pdf) ==
    LET order_mask == CreateMask(grid.orders, max_as, max_al)
        evolve_info == EvolveInfo(grid, order_mask)
        xif1 == IF operators.scvar_method # None THEN 1 ELSE xif
        x_grid == IF grid.integrability THEN Append(evolve_info.x1, Unit) ELSE evolve_info.x1
        reshaped == [operators EXCEPT !.targetgrid = x_grid]
        compatible == CheckCall(<<grid, reshaped, xif1>>)
        checked == CallsToCheck(order_mask, x_grid, compatible)
    IN IF reshaped.inputpids \notin {FlavorBasis, EvolutionBasis}
       THEN Run(Raise("ValueError", BasisError), checked, {})
       ELSE Run(Return(<<"grid", "fktable", comparison_pdf>>),
                checked
                \o (IF reshaped.inputpids = FlavorBasis
                    THEN <<ExternalCall("to_evol", <<>>, TRUE)>>
                    ELSE <<>>)
                \o CallsFromFold(order_mask, xir, xif1, comparison_pdf),
                {fktable_path})

\* evolve_grid. The call at evolve.py:171 gives check_grid_and_eko_compatible
\* three positional arguments.
EvolveGrid(grid, operators, fktable_path, max_as, max_al, xir, xif, comparison_pdf) ==
    LET order_mask == CreateMask(grid.orders, max_as, max_al)
        evolve_info == EvolveInfo(grid, order_mask)
        \* xif = 1.0 if operators.operator_card.configs.scvar_method is not None else xif
        xif1 == IF operators.scvar_method # None THEN 1 ELSE xif
        x_grid == IF grid.integrability THEN Append(evolve_info.x1, Unit) ELSE evolve_info.x1
        \* eko.io.manipulate.xgrid_reshape(operators, targetgrid=XGrid(x_grid))
        reshaped == [operators EXCEPT !.targetgrid = x_grid]
        compatible == CheckCall(<<grid, reshaped, xif1>>)
        checked == CallsToCheck(order_mask, x_grid, compatible)
    IN IF compatible.kind = "raise"
       THEN Run(compatible, checked, {})
       ELSE IF reshaped.inputpids \notin {FlavorBasis, EvolutionBasis}
       THEN Run(Raise("ValueError", BasisError), checked, {})
       ELSE Run(Return(<<"grid", "fktable", comparison_pdf>>),
                checked
                \o (IF reshaped.inputpids = FlavorBasis
                    THEN <<ExternalCall("to_evol", <<>>, TRUE)>>
                    ELSE <<>>)
                \o CallsFromFold(order_mask, xir, xif1, comparison_pdf),
                {fktable_path})

-----------------------------------------------------------------------------
(* Inputs *)

\* 1.0, 1.00000001, 1.00001002 (just outside the tolerance of 1.0), 1.5, 2.0, 3.0
In1dVals == {Unit, Unit + 1, Unit + 1002, (3 * Unit) \div 2, 2 * Unit, 3 * Unit}

\* scales of the operator: 1.0, 2.0, 3.0
OpQ2Vals == {Unit, 2 * Unit, 3 * Unit}

\* scales of the coefficient grid: 0.25, 1.0, 1.00000001, 1.00001002, 1.5, 2.0, 2.5, 3.0
GridQ2Vals == {Unit \div 4, Unit, Unit + 1, Unit + 1002, (3 * Unit) \div 2,
               2 * Unit, (5 * Unit) \div 2, 3 * Unit}

\* momentum fractions: 0.1, 0.5
XVals == {Unit \div 10, Unit \div 2}

XifVals == {1, 2}

OrderVals == {<<0, 0, 0, 0>>, <<1, 0, 0, 0>>, <<1, 0, 0, 1>>, <<1, 0, 1, 0>>,
              <<2, 0, 0, 0>>, <<2, 0, 1, 0>>, <<0, 1, 0, 0>>, <<1, 1, 0, 0>>}

ScaleKinds == {"REN", "FACT"}

\* XIF of a theory card: 0.5, 1.0, 1.00000001, 1.00001002, 2.0
TcardXifVals == {Unit \div 2, Unit, Unit + 1, Unit + 1002, 2 * Unit}

\* ModSV of a theory card
TcardModsvVals == {None, "exponentiated", "expanded", "unvaried"}

\* coefficient grids handed to evolve_grid
EvolveGridVals ==
    [orders : {<<(<<0, 0, 0, 0>>)>>, <<(<<0, 0, 0, 0>>), (<<1, 0, 0, 0>>)>>},
     x1 : GridsOf(XVals, 1, Cardinality(XVals)),
     fac1 : {<<Unit>>, <<Unit, 2 * Unit>>, <<Unit \div 4>>},
     integrability : BOOLEAN]

\* operators handed to evolve_grid
EvolveOperatorVals ==
    [mu2grid : {<<Unit>>, <<Unit, 2 * Unit>>},
     targetgrid : {<<Unit \div 10>>, <<Unit \div 10, Unit \div 2>>},
     inputpids : {FlavorBasis, EvolutionBasis, "other"},
     scvar_method : {None, "exponentiated"}]

FktablePath == "fktable.pineappl.lz4"

\* comparison_pdf
PdfVals == {None, "NNPDF40"}

-----------------------------------------------------------------------------
(* The driver *)

Init ==
    /\ op = "idle"
    /\ args = <<>>
    /\ ret = Return(None)

CallIn1d ==
    /\ op = "idle"
    /\ \E a \in SortedSeqsOf(In1dVals, 1, MaxNeedle), b \in SeqsOf(In1dVals, 0, MaxHay) :
        /\ op' = "in1d"
        /\ args' = [a |-> a, b |-> b]
        /\ ret' = Return(In1d(a, b))

CallCheck ==
    /\ op = "idle"
    /\ \E mu2grid \in SeqsOf(OpQ2Vals, 1, MaxOpLen),
          muf2_grid \in GridsOf(GridQ2Vals, 0, MaxGridLen),
          targetgrid \in GridsOf(XVals, 1, Cardinality(XVals)),
          x_grid \in GridsOf(XVals, 0, Cardinality(XVals)),
          xif \in XifVals :
        /\ op' = "check"
        /\ args' = [mu2grid |-> mu2grid, targetgrid |-> targetgrid,
                    x_grid |-> x_grid, muf2_grid |-> muf2_grid, xif |-> xif]
        /\ ret' = CheckGridAndEkoCompatible(mu2grid, targetgrid, x_grid, muf2_grid, xif)

\* the same call again, on the same inputs
CheckAgain ==
    /\ op = "check"
    /\ ret' = CheckGridAndEkoCompatible(args.mu2grid, args.targetgrid, args.x_grid,
                                        args.muf2_grid, args.xif)
    /\ UNCHANGED <<op, args>>

CallGetOrderList ==
    /\ op = "idle"
    /\ \E orders \in SeqsOf(OrderVals, 0, MaxOrders), max_as \in 0..MaxAs, max_al \in 0..MaxAl :
        /\ op' = "get_order_list"
        /\ args' = [orders |-> orders, max_as |-> max_as, max_al |-> max_al]
        /\ ret' = Return(GetOrderList(orders, max_as, max_al))

CallContainsSv ==
    /\ op = "idle"
    /\ \E orders \in SeqsOf(OrderVals, 0, MaxOrders), max_as \in 0..MaxAs, max_al \in 0..MaxAl,
          sv_type \in ScaleKinds :
        /\ op' = "contains_sv"
        /\ args' = [orders |-> orders, max_as |-> max_as, max_al |-> max_al,
                    sv_type |-> sv_type]
        /\ ret' = ContainsSv(orders, max_as, max_al, sv_type)

CallSvScheme ==
    /\ op = "idle"
    /\ \E xif \in TcardXifVals, modsv \in TcardModsvVals :
        /\ op' = "sv_scheme"
        /\ args' = [XIF |-> xif, ModSV |-> modsv]
        /\ ret' = SvScheme(xif, modsv)

CallEvolveGrid ==
    /\ op = "idle"
    /\ \E grid \in EvolveGridVals, operators \in EvolveOperatorVals,
          max_as \in 0..MaxAs, max_al \in 0..MaxAl,
          xir \in XifVals, xif \in XifVals, comparison_pdf \in PdfVals :
        /\ op' = "evolve_grid"
        /\ args' = [grid |-> grid, operators |-> operators, fktable_path |-> FktablePath,
                    max_as |-> max_as, max_al |-> max_al, xir |-> xir, xif |-> xif,
                    comparison_pdf |-> comparison_pdf]
        /\ ret' = EvolveGrid(grid, operators, FktablePath, max_as, max_al, xir, xif,
                             comparison_pdf)

Done ==
    /\ op # "idle"
    /\ op' = "idle"
    /\ args' = <<>>
    /\ ret' = Return(None)

Next ==
    \/ CallIn1d
    \/ CallCheck
    \/ CheckAgain
    \/ CallGetOrderList
    \/ CallContainsSv
    \/ CallSvScheme
    \/ CallEvolveGrid
    \/ Done

Spec == Init /\ [][Next]_vars

-----------------------------------------------------------------------------
(* Properties of check_grid_and_eko_compatible and in1d *)

\* every value of A has a value of B within the tolerance of that value of B
TolerantSubset(A, B) == \A x \in A : \E y \in B : IsClose(x, y)

\* What np.all(in1d(np.unique(operator), grid)) decides, as a scan over sets:
\* an operator grid of two or more distinct values must cover every grid
\* value; an operator grid of one value must be matched by some grid value.
Covers(operator, grid) ==
    IF Cardinality(operator) = 1
    THEN \E y \in grid : \A x \in operator : IsClose(y, x)
    ELSE TolerantSubset(grid, operator)

RequiredScales == Range(Scaled(args.xif, args.muf2_grid))

C2_MaskOverHaystack ==
    op = "in1d" =>
        /\ ret.kind = "return"
        /\ Len(ret.value) = Len(args.b)
        /\ \A i \in 1..Len(args.b) :
              ret.value[i] <=> \E k \in 1..Len(args.a) : IsClose(args.a[k], args.b[i])

Q2Compatible == Covers(Range(args.mu2grid), RequiredScales)
XCompatible == Covers(Range(args.targetgrid), Range(args.x_grid))

C8_Outcome ==
    op = "check" =>
        /\ ret \in {Return(None), Raise("ValueError", Q2Error), Raise("ValueError", XError)}
        /\ ret = Raise("ValueError", Q2Error) <=> ~Q2Compatible
        /\ ret = Raise("ValueError", XError) <=> (Q2Compatible /\ ~XCompatible)
        /\ ret = Return(None) <=> (Q2Compatible /\ XCompatible)

C8_SameInputsSameOutcome ==
    (op = "check" /\ op' = "check" /\ args' = args) => ret' = ret

InsertionPoint(i) == SearchSorted(SubSeq(args.a, 2, Len(args.a) - 1), args.b[i])

\* a full tolerant scan of b[i] against every element of a
FullScan(i) == \E k \in 1..Len(args.a) : IsClose(args.a[k], args.b[i])

\* C13: for every sorted needle a of length >= 2 and every haystack b, the
\* general case of in1d returns one boolean per element of b, equal to the
\* full tolerant scan of b[i] against every element of a, and the two
\* neighbours it reads, a[ss] and a[ss + 1] with ss the insertion position of
\* b[i] in a[1:-1], are elements of a (0 <= ss and ss + 1 <= len(a) - 1).
C13_NeighboursEqualFullScan ==
    (op = "in1d" /\ Len(args.a) >= 2) =>
        /\ ret.kind = "return"
        /\ Len(ret.value) = Len(args.b)
        /\ \A i \in 1..Len(args.b) :
              /\ ret.value[i] <=> FullScan(i)
              /\ 0 <= InsertionPoint(i)
              /\ InsertionPoint(i) + 1 <= Len(args.a) - 1

\* a needle of three values: 1.5 is found at the last element, past the
\* insertion position in a[1:-1] = [1.00000001], and 3.0 is not found
C13_Witness ==
    /\ op = "in1d"
    /\ args.a = <<Unit, Unit + 1, (3 * Unit) \div 2>>
    /\ args.b = <<(3 * Unit) \div 2, 3 * Unit>>
    /\ InsertionPoint(1) = 1
    /\ ret = Return(<<TRUE, FALSE>>)

-----------------------------------------------------------------------------
(* Properties of the order selection and of contains_sv *)

\* the order list contains_sv works on
Filtered == GetOrderList(args.orders, args.max_as, args.max_al)

\* the pure-QCD tower: the filtered orders of minimal al_power
Tower ==
    {o \in Range(Filtered) : \A p \in Range(Filtered) : o[2] <= p[2]}

\* the marker of the kind asked for: tuple index 2 (REN) or 3 (FACT), 0-based
Marker(o) == IF args.sv_type = "REN" THEN o[3] ELSE o[4]

Central == {o \in Tower : Marker(o) = 0}
Varied == {o \in Tower : Marker(o) # 0}

MaxAll == Max({o[1] : o \in Tower})
MinAs == Min({o[1] : o \in Tower})
MaxCen == Max({o[1] : o \in Central})
MaxVar == IF Varied = {} THEN 0 ELSE Max({o[1] : o \in Varied})

\* the five-branch decision of section 4.3
FiveBranch ==
    IF MaxCen = MaxAll
    THEN IF \/ MaxVar = MaxAll
            \/ MaxAll = MinAs
            \/ (args.sv_type = "REN" /\ MaxAll = 1 /\ MinAs = 0)
         THEN "BOTH"
         ELSE "CENTRAL"
    ELSE "SCVAR"

\* the availability a call of contains_sv returned, or "error"
Availability == IF ret.kind = "return" THEN ret.value[1] ELSE "error"

LO == <<0, 0, 0, 0>>
NLO == <<1, 0, 0, 0>>
NNLO == <<2, 0, 0, 0>>
NLOFact == <<1, 0, 0, 1>>
NLORen == <<1, 0, 1, 0>>
NNLORen == <<2, 0, 1, 0>>

\* contains_sv was called on this grid with these maxima for this kind
Called(orders, max_as, max_al, sv_type) ==
    /\ op = "contains_sv"
    /\ args.orders = orders
    /\ args.max_as = max_as
    /\ args.max_al = max_al
    /\ args.sv_type = sv_type

C3_Decision ==
    /\ ret = Return(<<FiveBranch, MaxAll - MinAs + 1>>)
    /\ Filtered = <<LO, NLO>> =>
          Availability = (IF args.sv_type = "REN" THEN "BOTH" ELSE "CENTRAL")

TopHasBoth ==
    /\ \E o \in Central : o[1] = MaxAll
    /\ \E o \in Varied : o[1] = MaxAll

\* only the leading order of the tower is selected
OnlyLeadingOrder == MaxAll = MinAs

C6_SinglePowerTower ==
    (/\ op = "contains_sv"
     /\ Filtered # <<>>
     /\ \A o \in Tower, p \in Tower : o[1] = p[1]
     /\ \E o \in Tower : Marker(o) = 0)
    => ret = Return(<<"BOTH", 1>>)

\* a tower of the single order (1,0,0,0), for FACT
C6_Witness ==
    /\ op = "contains_sv"
    /\ args.sv_type = "FACT"
    /\ Filtered = <<NLO>>
    /\ ret = Return(<<"BOTH", 1>>)

\* the positions of the orders that pass the filter of section 4.2
Passing ==
    {i \in 1..Len(args.orders) :
        args.orders[i][1] <= args.max_as /\ args.orders[i][2] <= args.max_al}

\* the k-th passing position
KthPassing(k) == CHOOSE i \in Passing : Cardinality({j \in Passing : j <= i}) = k

C9_EmptyListFails ==
    (op = "contains_sv" /\ Filtered = <<>>) => (ret.kind = "raise" /\ ret.value[1] = "ValueError")

\* a grid whose only order is above max_as
C9_Witness ==
    /\ op = "contains_sv"
    /\ args.orders = <<NLO>>
    /\ args.max_as = 0
    /\ ret.kind = "raise"

-----------------------------------------------------------------------------
(* Properties of sv_scheme *)

\* XIF is 1.0 within the tolerance of np.isclose: 1e-8 + 1e-5 * 1.0
XifIsOne == Abs(args.XIF - Unit) <= 1001

Recognized == args.ModSV \in {"exponentiated", "expanded"}

\* C10: sv_scheme raises ValueError if XIF is 1.0 and ModSV is a recognized
\* scheme, returns None if XIF is 1.0 and ModSV is not recognized, and
\* otherwise returns ModSV when recognized and None when not; so a scheme is
\* returned only when XIF differs from 1.0 and is always a recognized one.
C10_SvScheme ==
    op = "sv_scheme" =>
        /\ (XifIsOne /\ Recognized) => (ret.kind = "raise" /\ ret.value[1] = "ValueError")
        /\ (XifIsOne /\ ~Recognized) => ret = Return(None)
        /\ (~XifIsOne /\ Recognized) => ret = Return(args.ModSV)
        /\ (~XifIsOne /\ ~Recognized) => ret = Return(None)
        /\ (ret.kind = "return" /\ ret.value # None) => (~XifIsOne /\ Recognized)

\* XIF = 1.00000001 with a scheme requested
C10_Witness ==
    /\ op = "sv_scheme"
    /\ args.XIF = Unit + 1
    /\ args.ModSV = "expanded"
    /\ ret.kind = "raise"

-----------------------------------------------------------------------------
(* Properties of evolve_grid *)

\* the x grid the run reshapes the operator to
RunXGrid == IF args.grid.integrability THEN Append(args.grid.x1, Unit) ELSE args.grid.x1

\* the factorization factor the run goes on with
RunXif == IF args.operators.scvar_method # None THEN 1 ELSE args.xif

\* the order mask of the run
RunOrderMask == CreateMask(args.grid.orders, args.max_as, args.max_al)

\* The kinematic grids of the reshaped operator and of the grid are
\* compatible: the body of check_grid_and_eko_compatible accepts them, and the
\* operator's scales and x values are tolerantly among the grid's.
KinematicsCompatible ==
    /\ CheckGridAndEkoCompatible(args.operators.mu2grid, RunXGrid, args.grid.x1,
                                 args.grid.fac1, RunXif) = Return(None)
    /\ TolerantSubset(Range(args.operators.mu2grid), Range(Scaled(RunXif, args.grid.fac1)))
    /\ TolerantSubset(Range(args.grid.x1), Range(RunXGrid))

BasisAccepted == args.operators.inputpids \in {FlavorBasis, EvolutionBasis}

\* the positions of the external calls of that name in the run
Positions(name) == {i \in 1..Len(ret.calls) : ret.calls[i].name = name}

\* name was called once, then later was called once, after it
InOrder(name, later) ==
    /\ Cardinality(Positions(name)) = 1
    /\ Cardinality(Positions(later)) = 1
    /\ \A i \in Positions(name), j \in Positions(later) : i < j

\* C11 as stated: a run of evolve_grid on a grid and an operator whose
\* kinematic grids are compatible and whose basis is the flavor or the
\* evolution basis raises no error and completes every step in order: the
\* order mask for (max_as, max_al), the compatibility check, which succeeds,
\* the fold with that order mask and (xir, xif), and the write of the output
\* at fktable_path.
C11_CompatibleRunCompletes ==
    (op = "evolve_grid" /\ KinematicsCompatible /\ BasisAccepted) =>
        /\ ret.kind = "return"
        /\ InOrder("create_mask", "check_grid_and_eko_compatible")
        /\ InOrder("check_grid_and_eko_compatible", "evolve")
        /\ InOrder("evolve", "write_lz4")
        /\ \A i \in Positions("check_grid_and_eko_compatible") : ret.calls[i].ok
        /\ \A i \in Positions("evolve") :
              ret.calls[i].given = [order_mask |-> RunOrderMask, xi |-> <<args.xir, RunXif>>]
        /\ ret.files = {args.fktable_path}

\* the run folded, or wrote its output
Folded == Positions("evolve") # {}
Written == Positions("write_lz4") # {} \/ ret.files # {}

\* the compatibility check of the run ended with an error
CheckFailed == \E i \in Positions("check_grid_and_eko_compatible") : ~ret.calls[i].ok

====
